---- MODULE Spec2Model ----
(***************************************************************************)
(* Model of kafka/parsing.go: the list-groups parser (parseGroups), the    *)
(* per-format describe-group parser (regexpParser), its constructor        *)
(* (newRegexpParser) and the fallback dispatcher (DelegatingParser).       *)
(*                                                                         *)
(* Text is modelled as TLA+ strings, character by character: Len, \o and   *)
(* SubSeq are the only string operations used.  Regular expressions are    *)
(* modelled as sequences of atoms and matched with Go's leftmost-first,    *)
(* greedy semantics, unanchored as MatchString and FindStringSubmatch are. *)
(***************************************************************************)
EXTENDS Integers, Sequences, FiniteSets, TLC

VARIABLES
    pc,          \* position of the single caller thread
    output,      \* the text handed to parseGroups / DelegatingParser.Parse
    inGroups,    \* the lines the list-groups output was assembled from
    inHeader,    \* the first line the describe-group output was assembled from
    inLines,     \* the descriptors of the detail lines it was assembled from
    inCand,      \* the format definition handed to newRegexpParser
    groupsRes,   \* what parseGroups returned
    built,       \* what newRegexpParser returned
    parsers,     \* DelegatingParser.Parsers (names of the built-in parsers)
    idx,         \* DelegatingParser.Parse: position of the range loop
    invoked,     \* every parser.Parse call made so far, with its argument
    attempts,    \* every parser.Parse call that returned, with what it returned
    dataLines,   \* regexpParser.Parse: lines[1:]
    li,          \* regexpParser.Parse: position of the range loop over dataLines
    partitions,  \* regexpParser.Parse: the records accumulated so far
    err,         \* regexpParser.Parse: its err variable
    lineCalls,   \* parseLine calls made by the current regexpParser.Parse call
    result       \* what DelegatingParser.Parse returned

vars == <<pc, output, inGroups, inHeader, inLines, inCand, groupsRes, built,
          parsers, idx, invoked, attempts, dataLines, li, partitions, err,
          lineCalls, result>>

-----------------------------------------------------------------------------
(* Bounds of the model *)

MaxGroupLines == 4
MaxDataLines == 2

-----------------------------------------------------------------------------
(* Strings *)

Char(s, i) == SubSeq(s, i, i)

\* Go's nil error, nil slice and nil *regexpParser.  A nil slice and an empty
\* slice both have length 0 and are both modelled as the empty sequence.
nil == "nil"
NilSlice == <<>>

Min(S) == CHOOSE x \in S : \A y \in S : x <= y
Max(S) == CHOOSE x \in S : \A y \in S : x >= y

\* strings.Index(s, sub) for a non-empty sub, 1-based; 0 when sub does not occur.
Index(s, sub) ==
    LET hits == {i \in 1..(Len(s) - Len(sub) + 1) : SubSeq(s, i, i + Len(sub) - 1) = sub}
    IN  IF hits = {} THEN 0 ELSE Min(hits)

\* strings.Contains
Contains(s, sub) == Index(s, sub) > 0

\* strings.HasPrefix
HasPrefix(s, sub) == Len(s) >= Len(sub) /\ SubSeq(s, 1, Len(sub)) = sub

\* strings.Split(s, sep) for a non-empty sep: always at least one piece.
RECURSIVE Split(_, _)
Split(s, sep) ==
    LET i == Index(s, sep)
    IN  IF i = 0 THEN <<s>>
        ELSE <<SubSeq(s, 1, i - 1)>> \o Split(SubSeq(s, i + Len(sep), Len(s)), sep)

-----------------------------------------------------------------------------
(* Regular expressions *)

Digits == {"0", "1", "2", "3", "4", "5", "6", "7", "8", "9"}
LowerCase == {"a", "b", "c", "d", "e", "f", "g", "h", "i", "j", "k", "l", "m",
              "n", "o", "p", "q", "r", "s", "t", "u", "v", "w", "x", "y", "z"}
UpperCase == {"A", "B", "C", "D", "E", "F", "G", "H", "I", "J", "K", "L", "M",
              "N", "O", "P", "Q", "R", "S", "T", "U", "V", "W", "X", "Y", "Z"}
\* \s is [\t\n\f\r ]
WhiteSpace == {" ", "\t", "\n", "\f", "\r"}
\* [a-zA-Z0-9\\._\\-]
TopicChars == LowerCase \cup UpperCase \cup Digits \cup {"\\", ".", "_", "-"}

\* An atom is a literal string, taken once, or one character class, taken
\* one-or-more times (greedy), possibly wrapped in a capture group with a name
\* ("" for an unnamed group).
Atom(cls, ch, plus, grp, name) ==
    [cls |-> cls, ch |-> ch, plus |-> plus, grp |-> grp, name |-> name]

Accepts(a, c) ==
    CASE a.cls = "space"    -> c \in WhiteSpace
      [] a.cls = "nonspace" -> c \notin WhiteSpace
      [] a.cls = "digit"    -> c \in Digits
      [] a.cls = "any"      -> c # "\n"
      [] a.cls = "topic"    -> c \in TopicChars
      [] a.cls = "notcomma" -> c # ","

\* A literal string.
Lit(str) == <<Atom("lit", str, FALSE, FALSE, "")>>
\* \s+  \d+  .+  [^,]+
Sp == <<Atom("space", "", TRUE, FALSE, "")>>
Dp == <<Atom("digit", "", TRUE, FALSE, "")>>
AnyP == <<Atom("any", "", TRUE, FALSE, "")>>
NotCommaP == <<Atom("notcomma", "", TRUE, FALSE, "")>>
\* (?P<name>cls+)
Group(name, cls) == <<Atom(cls, "", TRUE, TRUE, name)>>

\* How many characters of s, from pos on, the atom accepts in a row.
RECURSIVE Run(_, _, _)
Run(a, s, pos) ==
    IF pos > Len(s) \/ ~Accepts(a, Char(s, pos)) THEN 0
    ELSE 1 + Run(a, s, pos + 1)

NoMatch == [ok |-> FALSE, ends |-> <<>>]

\* Match atoms k.. of re at position pos of s.  ends[j] is the position after
\* atom k+j-1.  A + takes as many characters as it can and gives them back one
\* at a time: of the lengths that let the rest match, the longest is the one
\* Go reports.
RECURSIVE MatchHere(_, _, _, _)
MatchHere(re, k, s, pos) ==
    IF k > Len(re) THEN [ok |-> TRUE, ends |-> <<>>]
    ELSE IF re[k].plus
    THEN LET rest == [n \in 1..Run(re[k], s, pos) |-> MatchHere(re, k + 1, s, pos + n)]
             good == {n \in DOMAIN rest : rest[n].ok}
         IN  IF good = {} THEN NoMatch
             ELSE [ok |-> TRUE, ends |-> <<pos + Max(good)>> \o rest[Max(good)].ends]
    ELSE LET next == pos + Len(re[k].ch)
         IN  IF next - 1 <= Len(s) /\ SubSeq(s, pos, next - 1) = re[k].ch
             THEN LET r == MatchHere(re, k + 1, s, next)
                  IN  IF r.ok THEN [ok |-> TRUE, ends |-> <<next>> \o r.ends]
                      ELSE NoMatch
             ELSE NoMatch

\* The leftmost match of re in s, looked for from position from on.
RECURSIVE FindFrom(_, _, _)
FindFrom(re, s, from) ==
    IF from > Len(s) + 1 THEN [ok |-> FALSE, start |-> 0, ends |-> <<>>]
    ELSE LET r == MatchHere(re, 1, s, from)
         IN  IF r.ok THEN [ok |-> TRUE, start |-> from, ends |-> r.ends]
             ELSE FindFrom(re, s, from + 1)

Find(re, s) == FindFrom(re, s, 1)

\* (*Regexp).MatchString
MatchString(re, s) == Find(re, s).ok

\* The atoms of re that are capture groups, in order.
GroupAtoms(re) == SelectSeq([k \in 1..Len(re) |-> k], LAMBDA k : re[k].grp)

\* (*Regexp).SubexpNames: index 0 is the whole expression, named "".
SubexpNames(re) ==
    LET g == GroupAtoms(re)
    IN  [i \in 0..Len(g) |-> IF i = 0 THEN "" ELSE re[g[i]].name]

\* (*Regexp).FindStringSubmatch: nil when s has no match, else the text of the
\* whole match at index 0 and of capture group i at index i.
FindStringSubmatch(re, s) ==
    LET m == Find(re, s)
        g == GroupAtoms(re)
        from(k) == IF k = 1 THEN m.start ELSE m.ends[k - 1]
        whole == IF re = <<>> THEN "" ELSE SubSeq(s, m.start, m.ends[Len(re)] - 1)
    IN  IF ~m.ok THEN NilSlice
        ELSE [i \in 0..Len(g) |->
                IF i = 0 THEN whole
                ELSE SubSeq(s, from(g[i]), m.ends[g[i]] - 1)]

-----------------------------------------------------------------------------
(* strconv.ParseInt(value, 10, 64) *)

ErrSyntax == "invalid syntax"
ErrRange == "value out of range"

\* The decimal digits of 1<<63 - 1 and of 1<<63, the largest magnitudes of a
\* positive and of a negative int64.
MaxInt64Digits == "9223372036854775807"
MinInt64Digits == "9223372036854775808"

DigitVal(c) ==
    CASE c = "0" -> 0 [] c = "1" -> 1 [] c = "2" -> 2 [] c = "3" -> 3
      [] c = "4" -> 4 [] c = "5" -> 5 [] c = "6" -> 6 [] c = "7" -> 7
      [] c = "8" -> 8 [] c = "9" -> 9

AllDigits(s) == \A i \in 1..Len(s) : Char(s, i) \in Digits

RECURSIVE StripZeros(_)
StripZeros(s) ==
    IF Len(s) > 1 /\ Char(s, 1) = "0" THEN StripZeros(SubSeq(s, 2, Len(s))) ELSE s

\* a > b for two digit strings without leading zeros.
RECURSIVE DigitsGreater(_, _)
DigitsGreater(a, b) ==
    IF Len(a) # Len(b) THEN Len(a) > Len(b)
    ELSE IF a = "" THEN FALSE
    ELSE IF Char(a, 1) # Char(b, 1) THEN DigitVal(Char(a, 1)) > DigitVal(Char(b, 1))
    ELSE DigitsGreater(SubSeq(a, 2, Len(a)), SubSeq(b, 2, Len(b)))

RECURSIVE DigitsValue(_)
DigitsValue(s) ==
    IF s = "" THEN 0
    ELSE 10 * DigitsValue(SubSeq(s, 1, Len(s) - 1)) + DigitVal(Char(s, Len(s)))

\* An optional sign, then one or more decimal digits; a magnitude beyond the
\* 64-bit range is a range error (Go then returns the nearest int64, which the
\* only caller, parseLong, discards: val is left 0 here).  The value of an
\* in-range digit string is computed in the model checker's integers.
ParseInt(value) ==
    LET signed == value # "" /\ Char(value, 1) \in {"+", "-"}
        neg == value # "" /\ Char(value, 1) = "-"
        body == IF signed THEN SubSeq(value, 2, Len(value)) ELSE value
        mag == StripZeros(body)
        limit == IF neg THEN MinInt64Digits ELSE MaxInt64Digits
    IN  IF body = "" \/ ~AllDigits(body) THEN [val |-> 0, err |-> ErrSyntax]
        ELSE IF DigitsGreater(mag, limit) THEN [val |-> 0, err |-> ErrRange]
        ELSE [val |-> IF neg THEN 0 - DigitsValue(mag) ELSE DigitsValue(mag),
              err |-> nil]

\* parseLong without the sentinel: the value ParseInt gave is passed on.
parseLong_NoSentinel(value) ==
    LET r == ParseInt(value)
    IN  [val |-> r.val, err |-> r.err]

parseLong(value) ==
    LET r == ParseInt(value)
    IN  IF r.err # nil THEN [val |-> -1, err |-> r.err]
        ELSE [val |-> r.val, err |-> nil]

-----------------------------------------------------------------------------
(* parseGroups *)

RuntimeException == "java.lang.RuntimeException"

\* The fault looked for at the start of the output only.
HasRuntimeException_Prefix(out) == HasPrefix(out, RuntimeException)

HasRuntimeException(out) == Contains(out, RuntimeException)

ToolRuntimeError(out) == "Got runtime error when executing script. Output: " \o out

\* Every line kept, the empty ones too.
NonEmptyLines_KeepAll(lines) == lines

NonEmptyLines(lines) == SelectSeq(lines, LAMBDA line : line # "")

parseGroups(out) ==
    IF HasRuntimeException(out)
    THEN [groups |-> NilSlice, err |-> ToolRuntimeError(out)]
    ELSE [groups |-> NonEmptyLines(Split(out, "\n")), err |-> nil]

-----------------------------------------------------------------------------
(* newRegexpParser and the built-in formats *)

\* The list of required fields with its last name forgotten.
requiredFields_Short ==
    <<"topic", "partitionId", "currentOffset", "lag", "clientId">>

requiredFields ==
    <<"topic", "partitionId", "currentOffset", "lag", "clientId", "consumerAddress">>

MissingGroupError(field) == "line regexp missing '" \o field \o "' capturing group"

\* indexByName[name] = i for every i, name of line.SubexpNames(); a name that
\* occurs twice keeps its last index.
IndexByName(line) ==
    LET names == SubexpNames(line)
        last(name) == CHOOSE i \in DOMAIN names :
                         /\ names[i] = name
                         /\ \A j \in DOMAIN names : names[j] = name => j <= i
    IN  [name \in {names[i] : i \in DOMAIN names} |-> last(name)]

\* The first required field, in the order of the list, with no capture group.
RECURSIVE FirstMissing(_, _, _)
FirstMissing(indexByName, fields, k) ==
    IF k > Len(fields) THEN ""
    ELSE IF fields[k] \notin DOMAIN indexByName THEN fields[k]
    ELSE FirstMissing(indexByName, fields, k + 1)

newRegexpParser(header, line) ==
    LET indexByName == IndexByName(line)
        missing == FirstMissing(indexByName, requiredFields, 1)
    IN  IF missing # ""
        THEN [parser |-> nil, err |-> MissingGroupError(missing)]
        ELSE [parser |-> [header |-> header, line |-> line, indexByName |-> indexByName],
              err |-> nil]

\* log.Fatal ends the process: there is no parser then.
Fatal == "fatal"

mustBuildNewRegexpParser(header, line) ==
    LET r == newRegexpParser(header, line)
    IN  IF r.err # nil THEN Fatal ELSE r.parser

TopicG == Group("topic", "topic")

\* TOPIC\s+PARTITION\s+CURRENT-OFFSET\s+LOG-END-OFFSET\s+LAG\s+CONSUMER-ID\s+HOST\s+CLIENT-ID
kafka0_10_2_1Header ==
    Lit("TOPIC") \o Sp \o Lit("PARTITION") \o Sp \o Lit("CURRENT-OFFSET") \o Sp
    \o Lit("LOG-END-OFFSET") \o Sp \o Lit("LAG") \o Sp \o Lit("CONSUMER-ID") \o Sp
    \o Lit("HOST") \o Sp \o Lit("CLIENT-ID")

kafka0_10_2_1Line ==
    TopicG \o Sp \o Group("partitionId", "digit") \o Sp
    \o Group("currentOffset", "digit") \o Sp \o Dp \o Sp \o Group("lag", "digit") \o Sp
    \o Group("consumerId", "nonspace") \o Sp \o Group("consumerAddress", "nonspace") \o Sp
    \o Group("clientId", "nonspace")

\* The 0.10.0.1 header without its first and last column, which are what tell
\* it from the 0.10.2.1 header.
kafka0_10_0_1Header_Loose ==
    Lit("TOPIC") \o Sp \o Lit("PARTITION") \o Sp \o Lit("CURRENT-OFFSET") \o Sp
    \o Lit("LOG-END-OFFSET") \o Sp \o Lit("LAG")

\* GROUP\s+TOPIC\s+PARTITION\s+CURRENT-OFFSET\s+LOG-END-OFFSET\s+LAG\s+OWNER
kafka0_10_0_1Header ==
    Lit("GROUP") \o Sp \o Lit("TOPIC") \o Sp \o Lit("PARTITION") \o Sp
    \o Lit("CURRENT-OFFSET") \o Sp \o Lit("LOG-END-OFFSET") \o Sp \o Lit("LAG") \o Sp
    \o Lit("OWNER")

kafka0_10_0_1Line ==
    AnyP \o Sp \o TopicG \o Sp \o Group("partitionId", "digit") \o Sp
    \o Group("currentOffset", "digit") \o Sp \o Dp \o Sp \o Group("lag", "digit") \o Sp
    \o Group("clientId", "nonspace") \o Lit("_/") \o Group("consumerAddress", "any")

kafka0_9_0_1Header ==
    Lit("GROUP, TOPIC, PARTITION, CURRENT OFFSET, LOG END OFFSET, LAG, OWNER")

kafka0_9_0_1Line ==
    NotCommaP \o Lit(", ") \o TopicG \o Lit(", ") \o Group("partitionId", "digit")
    \o Lit(", ") \o Group("currentOffset", "digit") \o Lit(", ") \o Dp \o Lit(", ")
    \o Group("lag", "digit") \o Lit(", ") \o Group("clientId", "any") \o Lit("_/")
    \o Group("consumerAddress", "any")

kafka0_10_2_1DescribeGroupParser ==
    mustBuildNewRegexpParser(kafka0_10_2_1Header, kafka0_10_2_1Line)
kafka0_10_0_1DescribeGroupParser ==
    mustBuildNewRegexpParser(kafka0_10_0_1Header, kafka0_10_0_1Line)
kafka0_9_0_1DescribeGroupParser ==
    mustBuildNewRegexpParser(kafka0_9_0_1Header, kafka0_9_0_1Line)

\* The parsers are held by name in the state; ParserOf gives the parser.
Formats == {"kafka0_9_0_1", "kafka0_10_0_1", "kafka0_10_2_1"}

ParserOf(name) ==
    CASE name = "kafka0_9_0_1"  -> kafka0_9_0_1DescribeGroupParser
      [] name = "kafka0_10_0_1" -> kafka0_10_0_1DescribeGroupParser
      [] name = "kafka0_10_2_1" -> kafka0_10_2_1DescribeGroupParser

DefaultParser == <<"kafka0_9_0_1", "kafka0_10_0_1", "kafka0_10_2_1">>

-----------------------------------------------------------------------------
(* regexpParser.parseLine *)

\* matches[i] of a Go slice: a panic (index out of range) outside its length.
Panics(matches, i) == i \notin DOMAIN matches

parseLine(p, line) ==
    LET matches == FindStringSubmatch(p.line, line)
        at(field) == matches[p.indexByName[field]]
        currentOffset == parseLong(at("currentOffset"))
        lag == parseLong(at("lag"))
    IN  IF Panics(matches, p.indexByName["currentOffset"])
        THEN [panic |-> TRUE, partition |-> nil, err |-> nil]
        ELSE [panic |-> FALSE,
              partition |-> [Topic |-> at("topic"),
                             PartitionID |-> at("partitionId"),
                             CurrentOffset |-> currentOffset.val,
                             Lag |-> lag.val,
                             ClientID |-> at("clientId"),
                             ConsumerAddress |-> at("consumerAddress")],
              err |-> nil]

-----------------------------------------------------------------------------
(* The inputs of the model *)

SeqsUpTo(S, n) == UNION {[1..k -> S] : k \in 0..n}

RECURSIVE Join(_, _)
Join(lines, sep) ==
    IF lines = <<>> THEN ""
    ELSE IF Len(lines) = 1 THEN lines[1]
    ELSE lines[1] \o sep \o Join(Tail(lines), sep)

\* Lines of list-groups output; FaultLines are those that hold the tool's
\* runtime fault.
FaultLines == {"java.lang.RuntimeException", "Error: java.lang.RuntimeException: boom"}
GroupLines == {"", "g1", "console-consumer-42", "java.lang.RuntimeExceptio"} \cup FaultLines

\* The header each tool version prints, and first lines that are no header.
HeaderText(fmt) ==
    CASE fmt = "kafka0_9_0_1" ->
           "GROUP, TOPIC, PARTITION, CURRENT OFFSET, LOG END OFFSET, LAG, OWNER"
      [] fmt = "kafka0_10_0_1" ->
           "GROUP  TOPIC  PARTITION  CURRENT-OFFSET  LOG-END-OFFSET  LAG  OWNER"
      [] fmt = "kafka0_10_2_1" ->
           "TOPIC PARTITION CURRENT-OFFSET LOG-END-OFFSET LAG CONSUMER-ID HOST CLIENT-ID"
NoHeaders == {"", "Error: Consumer group 'g1' does not exist."}
Headers == {HeaderText(fmt) : fmt \in Formats} \cup NoHeaders

\* The fields of a detail line as the tool prints them, with the values the
\* two numeric fields are to be read as (-1: beyond the 64-bit range).
FieldRows == <<
    [group |-> "g1", topic |-> "orders", partition |-> "0",
     offset |-> "105", offsetVal |-> 105, logEnd |-> "110",
     lag |-> "5", lagVal |-> 5,
     consumerId |-> "consumer-1-abc", host |-> "/10.0.0.5", clientId |-> "app-client-1"],
    [group |-> "g1", topic |-> "pay.events_v2", partition |-> "12",
     offset |-> "9223372036854775808", offsetVal |-> -1, logEnd |-> "7",
     lag |-> "7", lagVal |-> 7,
     consumerId |-> "c-2", host |-> "/10.0.0.6", clientId |-> "app2"],
    [group |-> "g1", topic |-> "logs", partition |-> "3",
     offset |-> "0042", offsetVal |-> 42, logEnd |-> "50",
     lag |-> "18446744073709551616", lagVal |-> -1,
     consumerId |-> "c-3", host |-> "/10.0.0.7", clientId |-> "app3"] >>

\* A detail line of each tool version.
LineText(fmt, f) ==
    CASE fmt = "kafka0_9_0_1" ->
           f.group \o ", " \o f.topic \o ", " \o f.partition \o ", " \o f.offset \o ", "
           \o f.logEnd \o ", " \o f.lag \o ", " \o f.clientId \o "_/" \o f.host
      [] fmt = "kafka0_10_0_1" ->
           f.group \o "  " \o f.topic \o "  " \o f.partition \o "  " \o f.offset \o "  "
           \o f.logEnd \o "  " \o f.lag \o "  " \o f.clientId \o "_/" \o f.host
      [] fmt = "kafka0_10_2_1" ->
           f.topic \o " " \o f.partition \o " " \o f.offset \o " " \o f.logEnd \o " "
           \o f.lag \o " " \o f.consumerId \o " " \o f.host \o " " \o f.clientId

JunkLine == "Consumer group g1 is rebalancing."

\* A detail line of the input: a row of FieldRows printed by one tool version,
\* a blank line (as a final line terminator leaves), or a line of no format.
\* Under the header of a tool version the rows are printed by that version.
Blank == [fmt |-> "blank", row |-> 0]
Junk == [fmt |-> "junk", row |-> 0]

LineDescs(h) ==
    {[fmt |-> fmt, row |-> r] : fmt \in {v \in Formats : HeaderText(v) = h},
                                r \in DOMAIN FieldRows}
    \cup {Blank, Junk}

Render(d) ==
    CASE d.fmt = "blank" -> ""
      [] d.fmt = "junk"  -> JunkLine
      [] OTHER           -> LineText(d.fmt, FieldRows[d.row])

DescribeOutput(h, ds) == Join(<<h>> \o [i \in DOMAIN ds |-> Render(ds[i])], "\n")

\* The parser lists a DelegatingParser is built with: built-in parsers, each
\* at most once, in any order.
ParserLists ==
    {ps \in SeqsUpTo(Formats, Cardinality(Formats)) :
        \A i, j \in DOMAIN ps : i # j => ps[i] # ps[j]}

\* A format definition with the name of one capture group taken away.
WithoutName(line, name) ==
    [k \in DOMAIN line |-> IF line[k].grp /\ line[k].name = name
                           THEN [line[k] EXCEPT !.name = ""] ELSE line[k]]

HeaderOf(fmt) ==
    CASE fmt = "kafka0_9_0_1"  -> kafka0_9_0_1Header
      [] fmt = "kafka0_10_0_1" -> kafka0_10_0_1Header
      [] fmt = "kafka0_10_2_1" -> kafka0_10_2_1Header

LineOf(fmt) ==
    CASE fmt = "kafka0_9_0_1"  -> kafka0_9_0_1Line
      [] fmt = "kafka0_10_0_1" -> kafka0_10_0_1Line
      [] fmt = "kafka0_10_2_1" -> kafka0_10_2_1Line

\* The names the record of a partition is filled from (parseLine), each of
\* which a line pattern must capture.
Required == {"topic", "partitionId", "currentOffset", "lag", "clientId", "consumerAddress"}

Candidates == {[fmt |-> fmt, drop |-> d] : fmt \in Formats, d \in {""} \cup Required \cup {"consumerId"}}

-----------------------------------------------------------------------------
(* The state machine *)

EmptyOutput == "empty output"
HeaderMismatch == "incorrect header"
NoFormatMatched == "no parser could parse the output"

Init ==
    /\ pc = "idle"
    /\ output = ""
    /\ inGroups = <<>>
    /\ inHeader = ""
    /\ inLines = <<>>
    /\ inCand = [fmt |-> "", drop |-> ""]
    /\ groupsRes = [groups |-> NilSlice, err |-> nil]
    /\ built = [parser |-> nil, err |-> nil]
    /\ parsers = <<>>
    /\ idx = 0
    /\ invoked = <<>>
    /\ attempts = <<>>
    /\ dataLines = <<>>
    /\ li = 0
    /\ partitions = NilSlice
    /\ err = nil
    /\ lineCalls = 0
    /\ result = [partitions |-> NilSlice, err |-> nil]

\* A call of parseGroups.
ParseGroups ==
    /\ pc = "idle"
    /\ \E ls \in SeqsUpTo(GroupLines, MaxGroupLines) :
          /\ inGroups' = ls
          /\ output' = Join(ls, "\n")
          /\ groupsRes' = parseGroups(Join(ls, "\n"))
    /\ pc' = "groups"
    /\ UNCHANGED <<inHeader, inLines, inCand, built, parsers, idx, invoked, attempts,
                   dataLines, li, partitions, err, lineCalls, result>>

\* A call of newRegexpParser.
NewRegexpParser ==
    /\ pc = "idle"
    /\ \E c \in Candidates :
          /\ inCand' = c
          /\ built' = newRegexpParser(HeaderOf(c.fmt), WithoutName(LineOf(c.fmt), c.drop))
    /\ pc' = "built"
    /\ UNCHANGED <<output, inGroups, inHeader, inLines, groupsRes, parsers, idx, invoked,
                   attempts, dataLines, li, partitions, err, lineCalls, result>>

\* A call of DelegatingParser.Parse: the range loop starts.
DelegatingParserParse ==
    /\ pc = "idle"
    /\ \E ps \in ParserLists, h \in Headers :
       \E ds \in SeqsUpTo(LineDescs(h), MaxDataLines) :
          /\ parsers' = ps
          /\ inHeader' = h
          /\ inLines' = ds
          /\ output' = DescribeOutput(h, ds)
    /\ idx' = 1
    /\ pc' = "range"
    /\ UNCHANGED <<inGroups, inCand, groupsRes, built, invoked, attempts, dataLines, li,
                   partitions, err, lineCalls, result>>

\* DelegatingParser.Parse returning, when the list is exhausted, what the last
\* parser returned.
DelegatingParserRange_LastResult ==
    /\ pc = "range"
    /\ IF idx > Len(parsers)
       THEN /\ result' = IF attempts = <<>> THEN [partitions |-> NilSlice, err |-> nil]
                         ELSE [partitions |-> attempts[Len(attempts)].partitions,
                               err |-> attempts[Len(attempts)].err]
            /\ pc' = "done"
            /\ UNCHANGED invoked
       ELSE /\ invoked' = Append(invoked, [parser |-> parsers[idx], output |-> output])
            /\ pc' = "parse"
            /\ UNCHANGED result
    /\ UNCHANGED <<output, inGroups, inHeader, inLines, inCand, groupsRes, built, parsers,
                   idx, attempts, dataLines, li, partitions, err, lineCalls>>

\* DelegatingParser.Parse: the next parser of the list is called with output,
\* or the list is exhausted.
DelegatingParserRange ==
    /\ pc = "range"
    /\ IF idx > Len(parsers)
       THEN /\ result' = [partitions |-> NilSlice, err |-> NoFormatMatched]
            /\ pc' = "done"
            /\ UNCHANGED invoked
       ELSE /\ invoked' = Append(invoked, [parser |-> parsers[idx], output |-> output])
            /\ pc' = "parse"
            /\ UNCHANGED result
    /\ UNCHANGED <<output, inGroups, inHeader, inLines, inCand, groupsRes, built, parsers,
                   idx, attempts, dataLines, li, partitions, err, lineCalls>>

\* The parser and the argument of the regexpParser.Parse call in progress.
CurParser == ParserOf(invoked[Len(invoked)].parser)
CurOutput == invoked[Len(invoked)].output

\* regexpParser.Parse returns (ps, e) to DelegatingParser.Parse.
Return(ps, e, calls) ==
    /\ attempts' = Append(attempts, [parser |-> invoked[Len(invoked)].parser,
                                     partitions |-> ps, err |-> e, lineCalls |-> calls])
    /\ pc' = "returned"

\* regexpParser.Parse without its header check.
RegexpParserParse_NoHeaderCheck ==
    /\ pc = "parse"
    /\ LET lines == Split(CurOutput, "\n")
       IN  /\ dataLines' = Tail(lines)
           /\ li' = 1
           /\ partitions' = <<>>
           /\ err' = nil
           /\ lineCalls' = 0
           /\ pc' = "lines"
           /\ UNCHANGED attempts
    /\ UNCHANGED <<output, inGroups, inHeader, inLines, inCand, groupsRes, built, parsers,
                   idx, invoked, result>>

\* regexpParser.Parse up to its loop: the split and the header check.
RegexpParserParse ==
    /\ pc = "parse"
    /\ LET lines == Split(CurOutput, "\n")
       IN  IF Len(lines) = 0
           THEN /\ Return(NilSlice, EmptyOutput, 0)
                /\ lineCalls' = 0
                /\ UNCHANGED <<dataLines, li, partitions, err>>
           ELSE IF ~MatchString(CurParser.header, lines[1])
           THEN /\ Return(NilSlice, HeaderMismatch, 0)
                /\ lineCalls' = 0
                /\ UNCHANGED <<dataLines, li, partitions, err>>
           ELSE /\ dataLines' = Tail(lines)
                /\ li' = 1
                /\ partitions' = <<>>
                /\ err' = nil
                /\ lineCalls' = 0
                /\ pc' = "lines"
                /\ UNCHANGED attempts
    /\ UNCHANGED <<output, inGroups, inHeader, inLines, inCand, groupsRes, built, parsers,
                   idx, invoked, result>>

\* regexpParser.Parse: one turn of the loop over dataLines.  A panic of
\* parseLine is recovered nowhere: it ends the call and its callers.
RegexpParserParseLine ==
    /\ pc = "lines"
    /\ li <= Len(dataLines)
    /\ LET r == parseLine(CurParser, dataLines[li])
       IN  /\ lineCalls' = lineCalls + 1
           /\ IF r.panic
              THEN /\ pc' = "panic"
                   /\ UNCHANGED <<attempts, li, partitions, err>>
              ELSE IF r.err # nil
              THEN /\ err' = r.err
                   /\ Return(partitions, r.err, lineCalls + 1)
                   /\ UNCHANGED <<li, partitions>>
              ELSE /\ partitions' = Append(partitions, r.partition)
                   /\ li' = li + 1
                   /\ err' = r.err
                   /\ UNCHANGED <<pc, attempts>>
    /\ UNCHANGED <<output, inGroups, inHeader, inLines, inCand, groupsRes, built, parsers,
                   idx, invoked, dataLines, result>>

\* regexpParser.Parse: the loop is over.
RegexpParserReturn ==
    /\ pc = "lines"
    /\ li > Len(dataLines)
    /\ Return(partitions, err, lineCalls)
    /\ UNCHANGED <<output, inGroups, inHeader, inLines, inCand, groupsRes, built, parsers,
                   idx, invoked, dataLines, li, partitions, err, lineCalls, result>>

\* DelegatingParser.Parse going on to the next parser after a success, so that
\* the last parser of the list decides.
DelegatingParserReturned_NoShortCircuit ==
    /\ pc = "returned"
    /\ LET a == attempts[Len(attempts)]
       IN  IF a.err = nil /\ idx = Len(parsers)
           THEN /\ result' = [partitions |-> a.partitions, err |-> a.err]
                /\ pc' = "done"
                /\ UNCHANGED idx
           ELSE /\ idx' = idx + 1
                /\ pc' = "range"
                /\ UNCHANGED result
    /\ UNCHANGED <<output, inGroups, inHeader, inLines, inCand, groupsRes, built, parsers,
                   invoked, attempts, dataLines, li, partitions, err, lineCalls>>

\* DelegatingParser.Parse: the parser called has returned.
DelegatingParserReturned ==
    /\ pc = "returned"
    /\ LET a == attempts[Len(attempts)]
       IN  IF a.err = nil
           THEN /\ result' = [partitions |-> a.partitions, err |-> a.err]
                /\ pc' = "done"
                /\ UNCHANGED idx
           ELSE /\ idx' = idx + 1
                /\ pc' = "range"
                /\ UNCHANGED result
    /\ UNCHANGED <<output, inGroups, inHeader, inLines, inCand, groupsRes, built, parsers,
                   invoked, attempts, dataLines, li, partitions, err, lineCalls>>

Next ==
    \/ ParseGroups
    \/ NewRegexpParser
    \/ DelegatingParserParse
    \/ DelegatingParserRange
    \/ RegexpParserParse
    \/ RegexpParserParseLine
    \/ RegexpParserReturn
    \/ DelegatingParserReturned

Spec == Init /\ [][Next]_vars

-----------------------------------------------------------------------------
(* What the inputs are, by the way they were assembled *)

\* The tool version whose header the first line is, "none" when it is no header.
InFormat ==
    IF \E v \in Formats : HeaderText(v) = inHeader
    THEN CHOOSE v \in Formats : HeaderText(v) = inHeader
    ELSE "none"

\* The first line is the header of a tool version and every detail line is a
\* row printed by that version.
WellFormed ==
    /\ InFormat \in Formats
    /\ \A i \in DOMAIN inLines : inLines[i].fmt = InFormat

\* The record a printed row is to be read as.
Expected(d) ==
    LET f == FieldRows[d.row]
    IN  [Topic |-> f.topic, PartitionID |-> f.partition, CurrentOffset |-> f.offsetVal,
         Lag |-> f.lagVal, ClientID |-> f.clientId, ConsumerAddress |-> f.host]

InList(fmt) == \E i \in DOMAIN parsers : parsers[i] = fmt

Dispatching == pc \in {"range", "parse", "lines", "returned", "done", "panic"}

-----------------------------------------------------------------------------
(* The claims *)

\* C1: DelegatingParser.Parse calls its parsers strictly in list order, each
\* with the output it was given; every call before the last one failed; and
\* when it returns records they are those of the first call that succeeded,
\* after which no further parser is called.
C1_FirstSuccessInListOrder ==
    Dispatching =>
        /\ Len(attempts) <= Len(invoked) /\ Len(invoked) <= Len(parsers)
        /\ \A i \in DOMAIN invoked :
              invoked[i].parser = parsers[i] /\ invoked[i].output = output
        /\ \A j \in DOMAIN attempts : attempts[j].parser = parsers[j]
        /\ \A j \in 1..(Len(attempts) - 1) : attempts[j].err # nil
        /\ (attempts # <<>> /\ attempts[Len(attempts)].err = nil) =>
              /\ Len(invoked) = Len(attempts)
              /\ pc \in {"returned", "done"}
        /\ (pc = "done" /\ result.err = nil) =>
              /\ attempts # <<>>
              /\ attempts[Len(attempts)].err = nil
              /\ result.partitions = attempts[Len(attempts)].partitions

\* A call that returned the records of the second parser of three, after the
\* first one failed: the third was never called.
C1_Witness ==
    /\ pc = "done"
    /\ result.err = nil
    /\ Len(parsers) = 3
    /\ Len(attempts) = 2
    /\ Len(invoked) = 2
    /\ Len(result.partitions) = 2

\* C2: when every parser of the list has rejected the output, in particular
\* when the first line is no known header, DelegatingParser.Parse returns
\* NoFormatMatched and no records; records never come with a failure.
C2_NoFormatMatched ==
    /\ pc = "done" =>
          /\ (Len(attempts) = Len(parsers) /\ \A j \in DOMAIN attempts : attempts[j].err # nil)
                => result = [partitions |-> NilSlice, err |-> NoFormatMatched]
          /\ result.err # nil => result = [partitions |-> NilSlice, err |-> NoFormatMatched]
          /\ InFormat = "none" => result.err = NoFormatMatched
    /\ (Dispatching /\ InFormat = "none") => pc \notin {"lines", "panic"}

\* All three parsers rejected an output whose first line is no header and that
\* has detail lines.
C2_Witness ==
    /\ pc = "done"
    /\ result.err = NoFormatMatched
    /\ Len(attempts) = 3
    /\ inHeader = "Error: Consumer group 'g1' does not exist."
    /\ Len(inLines) = 2

\* C3: a regexpParser.Parse call whose output's first line is not the header of
\* the parser's format fails with HeaderMismatch, returns no records and hands
\* no line to parseLine.
C3_HeaderMismatch ==
    Dispatching =>
        /\ \A j \in DOMAIN attempts :
              attempts[j].parser # InFormat =>
                  /\ attempts[j].err = HeaderMismatch
                  /\ attempts[j].partitions = NilSlice
                  /\ attempts[j].lineCalls = 0
        /\ pc \in {"lines", "panic"} => invoked[Len(invoked)].parser = InFormat
        /\ (invoked # <<>> /\ invoked[Len(invoked)].parser # InFormat) => lineCalls = 0

\* The parser of one tool version rejected the header of another, with detail
\* lines following it.
C3_Witness ==
    /\ attempts # <<>>
    /\ attempts[1].err = HeaderMismatch
    /\ InFormat \in Formats
    /\ Len(inLines) = 2
    /\ inLines[1].fmt = InFormat

\* C4: when the header matched and a detail line, an empty trailing line
\* included, does not match the line pattern, regexpParser.Parse returns a
\* failure of its own for it: no crash, no record for the line, no skipping.
C4_LineMismatchReported ==
    (pc \in {"lines", "panic", "returned"} /\ lineCalls >= 1
        /\ inLines[lineCalls].fmt \notin Formats) =>
        /\ pc = "returned"
        /\ attempts[Len(attempts)].err \notin {nil, HeaderMismatch, EmptyOutput}
        /\ attempts[Len(attempts)].lineCalls = lineCalls

\* C5: a detail line that does not match the pattern of the format whose header
\* matched is one more rejection for DelegatingParser.Parse: it goes on through
\* its list and, every other format rejecting the header, ends with
\* NoFormatMatched.
C5_LineMismatchRecovered ==
    (pc \in {"done", "panic"} /\ InFormat \in Formats /\ InList(InFormat)
        /\ \E i \in DOMAIN inLines : inLines[i].fmt \notin Formats) =>
        /\ pc = "done"
        /\ Len(invoked) = Len(parsers)
        /\ result = [partitions |-> NilSlice, err |-> NoFormatMatched]

\* C6: for output made of the header of a tool version and rows printed by that
\* version, a dispatcher that holds the version's parser, wherever in its
\* list, returns one record per row, in order, with the row's fields.
C6_WellFormedParsed ==
    (Dispatching /\ WellFormed /\ InList(InFormat)) =>
        /\ pc # "panic"
        /\ pc = "done" =>
              /\ result.err = nil
              /\ result.partitions = [i \in DOMAIN inLines |-> Expected(inLines[i])]

\* Two different 0.10.2.1 rows parsed by the default list, whose last parser is
\* the 0.10.2.1 one.
C6_Witness ==
    /\ pc = "done"
    /\ parsers = DefaultParser
    /\ InFormat = "kafka0_10_2_1"
    /\ Len(inLines) = 2
    /\ inLines[1].fmt = InFormat /\ inLines[2].fmt = InFormat
    /\ inLines[1].row = 1 /\ inLines[2].row = 3
    /\ Len(result.partitions) = 2
    /\ result.partitions[1].Topic = "orders"

\* C7: currentOffset and lag of a matched line are converted each on its own;
\* a field beyond the 64-bit range is -1, the other field keeps its value, the
\* record is produced and regexpParser.Parse reports no error for it.
C7_NumericSentinel ==
    Dispatching =>
        /\ \A i \in DOMAIN partitions :
              /\ i <= Len(inLines) /\ inLines[i].fmt \in Formats
              /\ partitions[i].CurrentOffset = FieldRows[inLines[i].row].offsetVal
              /\ partitions[i].Lag = FieldRows[inLines[i].row].lagVal
        /\ pc = "lines" => (err = nil /\ Len(partitions) = li - 1 /\ lineCalls = li - 1)
        /\ \A j \in DOMAIN attempts :
              attempts[j].lineCalls >= 1 =>
                  /\ attempts[j].err = nil
                  /\ Len(attempts[j].partitions) = attempts[j].lineCalls

\* A call returned one record whose currentOffset alone is the sentinel and one
\* whose lag alone is.
C7_Witness ==
    /\ pc = "done"
    /\ result.err = nil
    /\ Len(result.partitions) = 2
    /\ result.partitions[1].CurrentOffset = -1 /\ result.partitions[1].Lag = 7
    /\ result.partitions[2].CurrentOffset = 42 /\ result.partitions[2].Lag = -1

\* C8: parseGroups returns ToolRuntimeError, with no groups, exactly when a
\* line of the output holds java.lang.RuntimeException.
C8_RuntimeFault ==
    pc = "groups" =>
        /\ groupsRes.err # nil <=> \E i \in DOMAIN inGroups : inGroups[i] \in FaultLines
        /\ groupsRes.err # nil =>
              /\ groupsRes.groups = NilSlice
              /\ groupsRes.err = ToolRuntimeError(output)

\* The fault is in the middle of the last of three lines; the first two are
\* group names.
C8_Witness ==
    /\ pc = "groups"
    /\ inGroups = <<"g1", "console-consumer-42", "Error: java.lang.RuntimeException: boom">>
    /\ groupsRes.err # nil

\* C9: for output without the fault, parseGroups returns the non-empty lines,
\* as they are and in their order, and nothing else.
C9_NonEmptyLinesInOrder ==
    (pc = "groups" /\ \A i \in DOMAIN inGroups : inGroups[i] \notin FaultLines) =>
        /\ groupsRes.err = nil
        /\ groupsRes.groups = SelectSeq(inGroups, LAMBDA g : Len(g) > 0)
        /\ \A i \in DOMAIN groupsRes.groups : groupsRes.groups[i] # ""
        /\ Len(groupsRes.groups) = Cardinality({i \in DOMAIN inGroups : inGroups[i] # ""})

\* Blank lines before, between and after two group names.
C9_Witness ==
    /\ pc = "groups"
    /\ inGroups = <<"", "g1", "", "console-consumer-42">>
    /\ groupsRes.groups = <<"g1", "console-consumer-42">>

\* C10: newRegexpParser succeeds exactly when the line pattern has a named
\* capture group for each of the six required names; with one of them taken
\* away it fails and names it; the three built-in definitions succeed.
C10_RequiredGroups ==
    /\ \A fmt \in Formats :
          LET r == newRegexpParser(HeaderOf(fmt), LineOf(fmt))
          IN  r.err = nil /\ Required \subseteq DOMAIN r.parser.indexByName
    /\ pc = "built" =>
          /\ built.err = nil <=> inCand.drop \notin Required
          /\ built.err = nil => Required \subseteq DOMAIN built.parser.indexByName
          /\ built.err # nil => built.err = MissingGroupError(inCand.drop)

\* The 0.10.2.1 line pattern without its consumerAddress group was refused.
C10_Witness ==
    /\ pc = "built"
    /\ inCand = [fmt |-> "kafka0_10_2_1", drop |-> "consumerAddress"]
    /\ built.err = MissingGroupError("consumerAddress")

====
